---- MODULE Spec2Model ----
(***************************************************************************)
(* Voice-activated task scheduler (src/voice_temp.py).                     *)
(*                                                                         *)
(* The program is single-threaded: main() runs an interactive capture loop *)
(* and then a polling loop.  The model is a state machine over the         *)
(* position of main (pc) and the program's data: the task log (csv), the   *)
(* scheduler registry (jobs), the temporary directory (tempFiles), the     *)
(* wall clock (now) and the messages handed to the dispatcher (outbox).    *)
(* The collaborators (text-to-speech, microphone, transcription, date      *)
(* resolver, messaging, file system) are inputs: every action chooses      *)
(* their outcome with \E.                                                  *)
(***************************************************************************)
EXTENDS Integers, Sequences, FiniteSets, TLC

VARIABLES
    pc,         \* position of main()
    phase,      \* "startup" | "interactive" | "polling"
    exit,       \* how main is left: "none" | "returned" | "Exception" | "KeyboardInterrupt"
    site,       \* caller of the running get_voice_input: "command" | "name" | "date"
    attempt,    \* loop variable of get_voice_input (line 172)
    audio_path, \* local of get_voice_input (line 173): NoPath or a path
    command,    \* local of main (line 269)
    task_name,  \* local of create_task (line 198)
    date_str,   \* local of create_task (line 199)
    task,       \* local of main (line 272): NoTask or a Task
    now,        \* wall clock, in seconds
    tempFiles,  \* files that exist in config.temp_dir
    dirExists,  \* config.temp_dir exists
    csv,        \* config.csv_file: whether it exists, and its rows
    jobs,       \* schedule's registry
    outbox,     \* history: every call of send_whatsapp_message
    cap,        \* history: the running / last get_voice_input call
    it          \* history: the running / last iteration of the interactive loop

vars == <<pc, phase, exit, site, attempt, audio_path, command, task_name,
          date_str, task, now, tempFiles, dirExists, csv, jobs, outbox,
          cap, it>>

-----------------------------------------------------------------------------
(* Bounds of the model *)

\* tasks created in one run
MaxTasks == 1
\* days of wall clock that are explored
MaxDays == 2
\* rows the store specification appends
StoreMaxRows == 3

(* Program constants *)

\* TaskConfig.max_retries
max_retries == 3

-----------------------------------------------------------------------------
(* Wall clock, in seconds.  The model samples a day at the seconds       *)
(* DaySeconds: two consecutive seconds of the minute 12:00 and one of the  *)
(* minute 15:00; the seconds in between are skipped.                       *)

DaySeconds ==
    << [hour |-> 12, minute |-> 0], [hour |-> 12, minute |-> 0],
       [hour |-> 15, minute |-> 0] >>

TicksPerDay == Len(DaySeconds)
MaxClock == MaxDays * TicksPerDay - 1

Day(t) == t \div TicksPerDay
Tod(t) == t % TicksPerDay
ClockTime(t) == DaySeconds[Tod(t) + 1]

\* second 0 of the minute hm of a day, as an offset in the day
TodOf(hm) ==
    IF \E i \in 1..Len(DaySeconds) : DaySeconds[i] = hm
    THEN (CHOOSE i \in 1..Len(DaySeconds) :
            DaySeconds[i] = hm /\ \A k \in 1..(i - 1) : DaySeconds[k] # hm) - 1
    ELSE TicksPerDay

-----------------------------------------------------------------------------
(* Texts are sequences of tokens; " " and "\n" are whitespace. *)

Whitespace == {" ", "\n"}

RECURSIVE LStrip(_)
LStrip(s) == IF s # <<>> /\ Head(s) \in Whitespace THEN LStrip(Tail(s)) ELSE s

RECURSIVE RStrip(_)
RStrip(s) ==
    IF s # <<>> /\ s[Len(s)] \in Whitespace
    THEN RStrip(SubSeq(s, 1, Len(s) - 1))
    ELSE s

\* str.strip()
Strip(s) == RStrip(LStrip(s))

LowerTok(w) ==
    CASE w = "Schedule" -> "schedule"
      [] w = "Task" -> "task"
      [] w = "EXIT" -> "exit"
      [] OTHER -> w

\* str.lower()
Lower(s) == [i \in 1..Len(s) |-> LowerTok(s[i])]

\* w in s
Contains(s, w) == \E i \in 1..Len(s) : s[i] = w

\* what the user may be heard to say at each prompt (raw transcripts)
CommandUtterances ==
    { <<>>, <<" ">>, <<" ", "Schedule", " ">>, <<"exit">>,
      <<"exit", "Task">>, <<"hello">> }
NameUtterances == { <<"\n">>, <<" ", "pay rent", " ">> }
DateUtterances ==
    { <<>>, <<"tomorrow">>, <<"tomorrow", "at", "3pm">>,
      <<"today", "at", "12am">>, <<"blah">> }

UtterancesFor(s) ==
    CASE s = "command" -> CommandUtterances
      [] s = "name" -> NameUtterances
      [] OTHER -> DateUtterances

-----------------------------------------------------------------------------
(* Values *)

NoPath == <<>>
NoTask == [name |-> <<>>, due_date |-> -1, deadline_time |-> <<>>]
NoFile == [exists |-> FALSE, rows |-> <<>>]
NoDate == [day |-> -1, hour |-> 0, minute |-> 0]

\* Task(name, due_date, deadline_time), lines 39-44
Task(n, d, t) == [name |-> n, due_date |-> d, deadline_time |-> t]

\* AudioManager._get_temp_path: the path names the second of the call (the
\* process id is the same for all paths of a run)
_get_temp_path(suffix) == <<now, suffix>>

\* A path made at second t or later never equals a path of an earlier
\* second.  The files of earlier seconds, other than the recording `path`
\* of the running attempt, are kept as one: OldFiles.
OldFiles == <<-1, ".wav">>

Aged(files, path, t) ==
    { IF f[1] < t /\ f # path THEN OldFiles ELSE f : f \in files }

-----------------------------------------------------------------------------
(* parse_datetime, lines 207-217 *)

Digits == <<"0", "1", "2", "3", "4", "5", "6", "7", "8", "9">>
DigitVal(c) == (CHOOSE i \in 1..10 : Digits[i] = c) - 1

\* dt.strftime("%H:%M")
FormatTime(dt) ==
    << Digits[(dt.hour \div 10) + 1], Digits[(dt.hour % 10) + 1], ":",
       Digits[(dt.minute \div 10) + 1], Digits[(dt.minute % 10) + 1] >>

\* dt.strftime("%Y-%m-%d"): dates are day numbers of the model's clock
FormatDate(dt) == dt.day

\* dateparser.parse(text), at wall-clock time t: the possible results.  A text
\* without a time of day resolves to midnight or, for a relative date, to the
\* time of day of the call; NoDate stands for None.
Resolve(text, t) ==
    CASE text = <<"tomorrow">> ->
            { [day |-> Day(t) + 1, hour |-> 0, minute |-> 0],
              [day |-> Day(t) + 1, hour |-> ClockTime(t).hour,
               minute |-> ClockTime(t).minute] }
      [] text = <<"tomorrow", "at", "3pm">> ->
            { [day |-> Day(t) + 1, hour |-> 15, minute |-> 0] }
      [] text = <<"today", "at", "12am">> ->
            { [day |-> Day(t), hour |-> 0, minute |-> 0] }
      [] OTHER -> { NoDate }

\* lines 213-215: the default time
DefaultTime(dt) ==
    IF dt.hour = 0 /\ dt.minute = 0
    THEN [dt EXCEPT !.hour = 12, !.minute = 0]
    ELSE dt

\* lines 210-217, for a resolved dt: (due_date, deadline_time)
parse_datetime(dt) == << FormatDate(DefaultTime(dt)), FormatTime(DefaultTime(dt)) >>

-----------------------------------------------------------------------------
(* The task log, lines 147-152 and 219-227 *)

Header == <<"Task Name", "Due Date", "Deadline Time">>

\* csv.writer.writerow([task.name, task.due_date, task.deadline_time])
Row(t) == <<t.name, t.due_date, t.deadline_time>>

\* lines 149-152 without the test of line 148: the log is written anew
_initialize_csv_always(file) == [exists |-> TRUE, rows |-> <<Header>>]

\* TaskManager._initialize_csv
_initialize_csv(file) ==
    IF ~file.exists THEN [exists |-> TRUE, rows |-> <<Header>>] ELSE file

\* line 222 with mode 'w': the log is truncated before the row is written
save_task_truncating(file, t) == [exists |-> TRUE, rows |-> <<Row(t)>>]

\* TaskManager.save_task, the write of lines 222-224 (mode 'a' creates a
\* missing file)
save_task(file, t) == [exists |-> TRUE, rows |-> Append(file.rows, Row(t))]

-----------------------------------------------------------------------------
(* The scheduler registry: the schedule library, used at lines 248, 304 *)

\* Job.at("HH:MM"): the hour and minute of the text
ParseAt(s) ==
    [hour |-> DigitVal(s[1]) * 10 + DigitVal(s[2]),
     minute |-> DigitVal(s[4]) * 10 + DigitVal(s[5])]

\* a next run that is the minute hm of the day of t, passed or not
NextRun_today(hm, t) == Day(t) * TicksPerDay + TodOf(hm)

\* Job._schedule_next_run for every().day.at(hm): the first second 0 of the
\* minute hm after t (today when hm is still ahead, else tomorrow)
NextRun(hm, t) ==
    IF TodOf(hm) > Tod(t)
    THEN Day(t) * TicksPerDay + TodOf(hm)
    ELSE (Day(t) + 1) * TicksPerDay + TodOf(hm)

\* schedule.every().day.at(task.deadline_time).do(send_reminder), line 248
NewJob(t, at) ==
    [task |-> t, at_time |-> ParseAt(t.deadline_time),
     next_run |-> NextRun(ParseAt(t.deadline_time), at)]

\* send_reminder's message, line 245
send_reminder(t) ==
    [kind |-> "Reminder", name |-> t.name, due_date |-> t.due_date,
     deadline_time |-> t.deadline_time]

\* send_confirmation's message, line 253
send_confirmation(t) ==
    [kind |-> "Task Created", name |-> t.name, due_date |-> t.due_date,
     deadline_time |-> t.deadline_time]

\* TaskManager.send_whatsapp_message, lines 229-240: the entry of the outbox
\* for one call; ok: the client accepted the message, else its exception is
\* raised again.  job: the job whose send_reminder called (0: none), at: the
\* time of that run
send_whatsapp_message(message, ok, job, at) ==
    [msg |-> message, ok |-> ok, job |-> job, at |-> at]

\* Job.should_run
ShouldRun(j, t) == t >= j.next_run

\* sorted(runnable_jobs): the indices of the due jobs by next_run, ties in
\* registry order
RECURSIVE SortedDue(_, _, _)
SortedDue(js, t, done) ==
    LET due == { i \in 1..Len(js) : ShouldRun(js[i], t) /\ i \notin done }
    IN  IF due = {} THEN <<>>
        ELSE LET i == CHOOSE i \in due : \A k \in due :
                          \/ js[i].next_run < js[k].next_run
                          \/ (js[i].next_run = js[k].next_run /\ i <= k)
             IN  <<i>> \o SortedDue(js, t, done \cup {i})

\* jobs that are cancelled once they have run
RanJobs_cancelled(js, order, k, t) ==
    SelectSeq(js, LAMBDA j : ~(\E n \in 1..k : js[order[n]] = j))

\* Job.run for the first k entries of order: last_run and next_run move
RanJobs(js, order, k, t) ==
    [i \in 1..Len(js) |->
        IF \E n \in 1..k : order[n] = i
        THEN [js[i] EXCEPT !.next_run = NextRun(js[i].at_time, t)]
        ELSE js[i]]

\* the calls of send_whatsapp_message made by the first k jobs of order
RECURSIVE Fired(_, _, _, _, _)
Fired(js, order, k, okUpTo, t) ==
    IF k = 0 THEN <<>>
    ELSE Append(Fired(js, order, k - 1, okUpTo, t),
                send_whatsapp_message(send_reminder(js[order[k]].task),
                                      k <= okUpTo, order[k], t))

-----------------------------------------------------------------------------
(* Initial state: main after lines 259-261 (the constructors have run). *)

\* history of no get_voice_input call
NoCap == [site |-> "none", recs |-> 0, live |-> {}, result |-> "none", text |-> <<>>]

\* history of a get_voice_input call that starts: recs counts the calls of
\* record_audio, live holds the files save_audio made that still exist
NewCap(s) == [NoCap EXCEPT !.site = s, !.result = "running"]

\* history of an iteration of the interactive loop that starts: ct counts the
\* calls of create_task, ctFail names the step of create_task that failed, exc
\* the exception caught by main, rows0, jobs0 and out0 the sizes at its start
NewIt ==
    [ct |-> 0, ctFail |-> "none", exc |-> "none", said |-> {},
     rows0 |-> Len(csv.rows), jobs0 |-> Len(jobs), out0 |-> Len(outbox)]

\* history of no iteration
NoIt ==
    [ct |-> 0, ctFail |-> "none", exc |-> "none", said |-> {},
     rows0 |-> 0, jobs0 |-> 0, out0 |-> 0]

Init ==
    /\ pc = "welcome"
    /\ phase = "startup"
    /\ exit = "none"
    /\ site = "command"
    /\ attempt = 0
    /\ audio_path = NoPath
    /\ command = <<>>
    /\ task_name = <<>>
    /\ date_str = <<>>
    /\ task = NoTask
    /\ now = 0
    /\ tempFiles = {}
    /\ dirExists = TRUE
    /\ csv = _initialize_csv(NoFile)
    /\ jobs = <<>>
    /\ outbox = <<>>
    /\ cap = NoCap
    /\ it = NoIt

-----------------------------------------------------------------------------
(* AudioManager.text_to_speech, lines 63-100.  The call is synchronous; its *)
(* two paths are taken at the start (lines 65-66) and removed in the        *)
(* finally (lines 93-100), whether or not the call raised.  ok: the call    *)
(* returns.  The os.remove of line 98 is taken to succeed.                  *)

TtsPaths == { _get_temp_path(".mp3"), _get_temp_path(".wav") }

\* the files left after the finally, lines 93-100
TtsFiles(files) == files \ TtsPaths

text_to_speech(ok) == tempFiles' = TtsFiles(tempFiles)

Said(i, kind) == [i EXCEPT !.said = @ \cup {kind}]

Caught(i, e) == [i EXCEPT !.exc = e]

\* the top of the while loop of main, line 267
LoopTop == pc' = "prompt" /\ site' = "command"

\* line 263
Welcome ==
    /\ pc = "welcome"
    /\ \E ok \in BOOLEAN :
        /\ text_to_speech(ok)
        /\ IF ok
           THEN /\ pc' = "prompt"
                /\ phase' = "interactive"
                /\ exit' = exit
           ELSE /\ pc' = "cleanup"
                /\ phase' = phase
                /\ exit' = "Exception"
    /\ UNCHANGED <<site, attempt, audio_path, command, task_name, date_str,
                   task, now, dirExists, csv, jobs, outbox, cap, it>>

-----------------------------------------------------------------------------
(* TaskManager.get_voice_input, lines 167-193 *)

\* where an Exception that leaves get_voice_input is caught: the except of
\* main (line 295) for the command, the except of create_task (line 202)
Handler(s) == IF s = "command" THEN "announce" ELSE "ct_err"

ItRaise(s, i) ==
    IF s = "command" THEN Caught(i, "Exception") ELSE [i EXCEPT !.ctFail = s]

\* lines 169-170: the prompt is spoken before the first attempt
Prompt ==
    /\ pc = "prompt"
    /\ LET it0 == IF site = "command" THEN NewIt ELSE it
       IN  \E ok \in BOOLEAN :
            /\ text_to_speech(ok)
            /\ IF ok
               THEN /\ pc' = "record"
                    /\ cap' = NewCap(site)
                    /\ it' = it0
               ELSE /\ pc' = Handler(site)
                    /\ cap' = [NewCap(site) EXCEPT !.result = "raised"]
                    /\ it' = ItRaise(site, it0)
    /\ attempt' = 0
    /\ audio_path' = NoPath
    /\ task' = IF site = "command" THEN NoTask ELSE task
    /\ command' = <<>>
    /\ UNCHANGED <<phase, exit, site, task_name, date_str, now,
                   dirExists, csv, jobs, outbox>>

\* lines 185-191: the finally of an attempt.  rmOk: os.remove succeeded.
\* No attempt runs after it, so what stays of earlier seconds is old.
Finally(files, path, rmOk) ==
    Aged(IF path # NoPath /\ path \in files /\ rmOk THEN files \ {path} ELSE files,
         NoPath, now)

RmChoices(files, path) ==
    IF path # NoPath /\ path \in files THEN BOOLEAN ELSE {TRUE}

\* history: the files made by the running call that exist in files
Live(c, files) == [c EXCEPT !.live = Aged(@, NoPath, now) \cap files]

\* the end of a failed attempt of a loop that makes one attempt more
EndAttempt_one_more(capNow) ==
    /\ audio_path' = NoPath
    /\ IF attempt < max_retries
       THEN /\ pc' = "record"
            /\ attempt' = attempt + 1
            /\ cap' = capNow
            /\ it' = it
       ELSE /\ pc' = Handler(site)
            /\ attempt' = 0
            /\ cap' = [capNow EXCEPT !.result = "exhausted"]
            /\ it' = ItRaise(site, it)

\* the end of a failed attempt: the next attempt of the for loop (line 172),
\* or line 193 after the last one
EndAttempt(capNow) ==
    /\ audio_path' = NoPath
    /\ IF attempt + 1 < max_retries
       THEN /\ pc' = "record"
            /\ attempt' = attempt + 1
            /\ cap' = capNow
            /\ it' = it
       ELSE /\ pc' = Handler(site)
            /\ attempt' = 0
            /\ cap' = [capNow EXCEPT !.result = "exhausted"]
            /\ it' = ItRaise(site, it)

\* line 175: AudioManager.record_audio
Record ==
    /\ pc = "record"
    /\ \E ok \in BOOLEAN :
        /\ IF ok
           THEN /\ pc' = "save"
                /\ cap' = [cap EXCEPT !.recs = @ + 1]
                /\ UNCHANGED <<attempt, audio_path, it>>
           ELSE EndAttempt([cap EXCEPT !.recs = @ + 1])
    /\ UNCHANGED <<phase, exit, site, command, task_name, date_str, task, now,
                   tempFiles, dirExists, csv, jobs, outbox>>

\* line 176: AudioManager.save_audio (lines 118-126).  written: sf.write
\* created the file at temp_path (always when it returns; it may also have
\* created it before it raised)
Save ==
    /\ pc = "save"
    /\ \E ok \in BOOLEAN, written \in BOOLEAN :
        /\ ok => written
        /\ tempFiles' = IF written THEN tempFiles \cup {_get_temp_path(".wav")}
                        ELSE tempFiles
        /\ LET capNow == IF written
                         THEN [cap EXCEPT !.live = @ \cup {_get_temp_path(".wav")}]
                         ELSE cap
           IN  IF ok
               THEN /\ pc' = "stt"
                    /\ audio_path' = _get_temp_path(".wav")
                    /\ cap' = capNow
                    /\ UNCHANGED <<attempt, it>>
               ELSE EndAttempt(capNow)
    /\ UNCHANGED <<phase, exit, site, command, task_name, date_str, task, now,
                   dirExists, csv, jobs, outbox>>

\* line 162 without its .strip()
speech_to_text_raw(raw) == raw

\* TaskManager.speech_to_text, line 162, for the raw transcript
speech_to_text(raw) == Strip(raw)

\* the return of get_voice_input (line 180) to its caller: line 269 of main,
\* lines 198 and 199 of create_task
ReturnText(text, capNow) ==
    /\ attempt' = 0
    /\ audio_path' = NoPath
    /\ cap' = [capNow EXCEPT !.result = "text", !.text = text]
    /\ it' = it
    /\ CASE site = "command" ->
                /\ command' = text
                /\ pc' = "dispatch"
                /\ UNCHANGED <<site, task_name, date_str>>
         [] site = "name" ->
                /\ task_name' = text
                /\ pc' = "prompt"
                /\ site' = "date"
                /\ UNCHANGED <<command, date_str>>
         [] OTHER ->
                /\ date_str' = text
                /\ pc' = "parse"
                /\ UNCHANGED <<site, command, task_name>>

\* lines 177-180: the transcription and the test of its text
Transcribe ==
    /\ pc = "stt"
    /\ \/ \* speech_to_text raises: caught at line 183, then the finally
          \E rmOk \in RmChoices(tempFiles, audio_path) :
            /\ tempFiles' = Finally(tempFiles, audio_path, rmOk)
            /\ EndAttempt(Live(cap, Finally(tempFiles, audio_path, rmOk)))
            /\ UNCHANGED <<site, command, task_name, date_str>>
       \/ \* line 180: a text is returned, through the finally
          \E raw \in UtterancesFor(site), rmOk \in RmChoices(tempFiles, audio_path) :
            /\ speech_to_text(raw) # <<>>
            /\ tempFiles' = Finally(tempFiles, audio_path, rmOk)
            /\ ReturnText(speech_to_text(raw),
                          Live(cap, Finally(tempFiles, audio_path, rmOk)))
       \/ \* the text is empty: line 182 is next
          \E raw \in UtterancesFor(site) :
            /\ speech_to_text(raw) = <<>>
            /\ pc' = "apology"
            /\ UNCHANGED <<site, attempt, audio_path, command, task_name,
                           date_str, tempFiles, cap, it>>
    /\ UNCHANGED <<phase, exit, task, now, dirExists, csv, jobs, outbox>>

\* line 182, and the except and finally after it
Apology ==
    /\ pc = "apology"
    /\ \E ok \in BOOLEAN :
        \E rmOk \in RmChoices(TtsFiles(tempFiles), audio_path) :
            /\ tempFiles' = Finally(TtsFiles(tempFiles), audio_path, rmOk)
            /\ EndAttempt(Live(cap, Finally(TtsFiles(tempFiles), audio_path, rmOk)))
    /\ UNCHANGED <<phase, exit, site, command, task_name, date_str, task, now,
                   dirExists, csv, jobs, outbox>>

-----------------------------------------------------------------------------
(* main, the interactive loop, lines 267-299, and create_task, lines 195-205 *)

\* the tests of lines 271 and 280 in the other order: 'exit' first
Branch_exit_first(cmd) ==
    IF Contains(Lower(cmd), "exit")
    THEN "exit"
    ELSE IF Contains(Lower(cmd), "schedule") \/ Contains(Lower(cmd), "task")
         THEN "create_task"
         ELSE "unknown"

\* lines 271, 280, 285: the branch taken for a command
Branch(cmd) ==
    IF Contains(Lower(cmd), "schedule") \/ Contains(Lower(cmd), "task")
    THEN "create_task"
    ELSE IF Contains(Lower(cmd), "exit") THEN "exit" ELSE "unknown"

\* lines 271-288: the dispatch on the command; create_task starts with the
\* capture of the name (line 198).  The command is read by the tests of lines
\* 271 and 280 only: the step after the dispatch drops it.
Dispatch ==
    /\ pc = "dispatch"
    /\ Branch(command) = "create_task" => Len(jobs) < MaxTasks
    /\ CASE Branch(command) = "create_task" ->
                /\ pc' = "prompt"
                /\ site' = "name"
                /\ it' = [it EXCEPT !.ct = @ + 1]
         [] Branch(command) = "exit" ->
                /\ pc' = "bye"
                /\ UNCHANGED <<site, it>>
         [] OTHER ->
                /\ pc' = "huh"
                /\ UNCHANGED <<site, it>>
    /\ cap' = NoCap
    /\ UNCHANGED <<phase, exit, attempt, audio_path, command, task_name,
                   date_str, task, now, tempFiles, dirExists, csv, jobs,
                   outbox>>

\* lines 200-201 without the test of line 210: a Task from every result
Parse_unchecked ==
    /\ pc = "parse"
    /\ \E dt \in Resolve(date_str, now) :
        /\ pc' = "save_task"
        /\ task' = Task(task_name, parse_datetime(dt)[1], parse_datetime(dt)[2])
        /\ it' = it
    /\ task_name' = <<>>
    /\ date_str' = <<>>
    /\ cap' = NoCap
    /\ UNCHANGED <<phase, exit, site, attempt, audio_path, command, now,
                   tempFiles, dirExists, csv, jobs, outbox>>

\* lines 200-201: parse_datetime and the construction of the Task
Parse ==
    /\ pc = "parse"
    /\ \E dt \in Resolve(date_str, now) :
        IF dt = NoDate
        THEN \* line 211: raise ValueError, caught at line 202
             /\ pc' = "ct_err"
             /\ it' = [it EXCEPT !.ctFail = "parse"]
             /\ task' = task
        ELSE /\ pc' = "save_task"
             /\ task' = Task(task_name, parse_datetime(dt)[1], parse_datetime(dt)[2])
             /\ it' = it
    /\ task_name' = <<>>
    /\ date_str' = <<>>
    /\ cap' = NoCap
    /\ UNCHANGED <<phase, exit, site, attempt, audio_path, command, now,
                   tempFiles, dirExists, csv, jobs, outbox>>

\* lines 202-205: the except of create_task
CreateTaskError ==
    /\ pc = "ct_err"
    /\ \E ok \in BOOLEAN :
        /\ text_to_speech(ok)
        /\ IF ok
           THEN /\ LoopTop
                /\ it' = Said(it, "ct_err")
           ELSE /\ pc' = "announce"
                /\ site' = "command"
                /\ it' = Caught(Said(it, "ct_err"), "Exception")
    /\ task_name' = <<>>
    /\ date_str' = <<>>
    /\ cap' = NoCap
    /\ UNCHANGED <<phase, exit, attempt, audio_path, command, task, now,
                   dirExists, csv, jobs, outbox>>

\* line 274 with a save_task that swallows what the write raised
SaveTask_swallowed ==
    /\ pc = "save_task"
    /\ \E ok \in BOOLEAN :
        /\ csv' = IF ok THEN save_task(csv, task) ELSE csv
        /\ pc' = "schedule_reminder"
        /\ it' = it
    /\ UNCHANGED <<phase, exit, site, attempt, audio_path, command, task_name,
                   date_str, task, now, tempFiles, dirExists, jobs, outbox, cap>>

\* line 274: save_task; it raises what the write raised (lines 225-227)
SaveTask ==
    /\ pc = "save_task"
    /\ \E ok \in BOOLEAN :
        /\ IF ok
           THEN /\ csv' = save_task(csv, task)
                /\ pc' = "schedule_reminder"
                /\ it' = it
           ELSE /\ csv' = csv
                /\ pc' = "announce"
                /\ it' = Caught(it, "Exception")
    /\ UNCHANGED <<phase, exit, site, attempt, audio_path, command, task_name,
                   date_str, task, now, tempFiles, dirExists, jobs, outbox, cap>>

\* line 275 after line 276: the confirmation is sent before the job is
\* registered
ScheduleReminder_late ==
    /\ pc = "schedule_reminder"
    /\ outbox' = Append(outbox,
                        send_whatsapp_message(send_confirmation(task), TRUE, 0, 0))
    /\ pc' = "send_confirmation"
    /\ UNCHANGED <<phase, exit, site, attempt, audio_path, command, task_name,
                   date_str, task, now, tempFiles, dirExists, csv, jobs, cap, it>>

\* line 275: schedule_reminder, lines 242-249
\* line 248 run twice for a task: two triggers for one row
ScheduleReminder_twice ==
    /\ pc = "schedule_reminder"
    /\ jobs' = Append(Append(jobs, NewJob(task, now)), NewJob(task, now))
    /\ pc' = "send_confirmation"
    /\ UNCHANGED <<phase, exit, site, attempt, audio_path, command, task_name,
                   date_str, task, now, tempFiles, dirExists, csv, outbox, cap, it>>

ScheduleReminder ==
    /\ pc = "schedule_reminder"
    /\ jobs' = Append(jobs, NewJob(task, now))
    /\ pc' = "send_confirmation"
    /\ UNCHANGED <<phase, exit, site, attempt, audio_path, command, task_name,
                   date_str, task, now, tempFiles, dirExists, csv, outbox, cap, it>>

\* line 276: send_confirmation, lines 251-254
SendConfirmation ==
    /\ pc = "send_confirmation"
    /\ \E ok \in BOOLEAN :
        /\ outbox' = Append(outbox,
                            send_whatsapp_message(send_confirmation(task), ok, 0, 0))
        /\ IF ok
           THEN /\ pc' = "tts_success"
                /\ it' = it
           ELSE /\ pc' = "announce"
                /\ it' = Caught(it, "Exception")
    /\ UNCHANGED <<phase, exit, site, attempt, audio_path, command, task_name,
                   date_str, task, now, tempFiles, dirExists, csv, jobs, cap>>

\* a text_to_speech call of the try block of main whose return leads to the
\* top of the loop: lines 277-279 and 286-288
SpeakInLoop(at, kind) ==
    /\ pc = at
    /\ \E ok \in BOOLEAN :
        /\ text_to_speech(ok)
        /\ IF ok
           THEN /\ LoopTop
                /\ it' = Said(it, kind)
           ELSE /\ pc' = "announce"
                /\ site' = site
                /\ it' = Caught(Said(it, kind), "Exception")
    /\ command' = <<>>
    /\ UNCHANGED <<phase, exit, attempt, audio_path, task_name,
                   date_str, task, now, dirExists, csv, jobs, outbox, cap>>

\* lines 277-279
Success == SpeakInLoop("tts_success", "success")

\* lines 286-288
Unknown == SpeakInLoop("huh", "unknown")

\* lines 281-284: the exit utterance
Bye ==
    /\ pc = "bye"
    /\ \E ok \in BOOLEAN :
        /\ text_to_speech(ok)
        /\ IF ok
           THEN /\ pc' = "poll"
                /\ phase' = "polling"
                /\ it' = Said(it, "bye")
           ELSE /\ pc' = "announce"
                /\ phase' = phase
                /\ it' = Caught(Said(it, "bye"), "Exception")
    /\ command' = <<>>
    /\ UNCHANGED <<exit, site, attempt, audio_path, task_name,
                   date_str, task, now, dirExists, csv, jobs, outbox, cap>>

\* lines 290-294: except KeyboardInterrupt
Interrupted ==
    /\ pc = "kbd"
    /\ \E ok \in BOOLEAN :
        /\ text_to_speech(ok)
        /\ it' = Said(it, "kbd")
        /\ IF ok
           THEN /\ pc' = "poll"
                /\ phase' = "polling"
                /\ exit' = exit
           ELSE /\ pc' = "cleanup"
                /\ phase' = phase
                /\ exit' = "Exception"
    /\ cap' = NoCap
    /\ UNCHANGED <<site, attempt, audio_path, command, task_name, date_str,
                   task, now, dirExists, csv, jobs, outbox>>

\* lines 295-299: except Exception
Announce ==
    /\ pc = "announce"
    /\ \E ok \in BOOLEAN :
        /\ text_to_speech(ok)
        /\ it' = Said(it, "announce")
        /\ IF ok
           THEN /\ LoopTop
                /\ exit' = exit
           ELSE /\ pc' = "cleanup"
                /\ site' = site
                /\ exit' = "Exception"
    /\ cap' = NoCap
    /\ UNCHANGED <<phase, attempt, audio_path, command, task_name, date_str,
                   task, now, dirExists, csv, jobs, outbox>>

-----------------------------------------------------------------------------
(* main, the polling loop, lines 301-307 *)

\* line 304: schedule.run_pending().  The due jobs run in order; a job whose
\* send_reminder raises ends run_pending with that exception, which line 306
\* does not catch.  n: the jobs that ran and returned
RunPending ==
    /\ pc = "poll"
    /\ LET order == SortedDue(jobs, now, {})
       IN  \E n \in 0..Len(order) :
            IF n = Len(order)
            THEN /\ jobs' = RanJobs(jobs, order, n, now)
                 /\ outbox' = outbox \o Fired(jobs, order, n, n, now)
                 /\ pc' = "sleep"
                 /\ exit' = exit
            ELSE /\ jobs' = RanJobs(jobs, order, n, now)
                 /\ outbox' = outbox \o Fired(jobs, order, n + 1, n, now)
                 /\ pc' = "cleanup"
                 /\ exit' = "Exception"
    /\ cap' = NoCap
    /\ it' = NoIt
    /\ UNCHANGED <<phase, site, attempt, audio_path, command, task_name,
                   date_str, task, now, tempFiles, dirExists, csv>>

\* line 305: time.sleep(1)
Sleep ==
    /\ pc = "sleep"
    /\ now < MaxClock
    /\ now' = now + 1
    /\ pc' = "poll"
    /\ tempFiles' = Aged(tempFiles, audio_path, now + 1)
    /\ UNCHANGED <<phase, exit, site, attempt, audio_path, command, task_name,
                   date_str, task, dirExists, csv, jobs, outbox, cap, it>>

\* the wall clock advances while main is busy or blocked
Tick ==
    /\ pc \notin {"sleep", "cleanup", "exited"}
    /\ now < MaxClock
    /\ now' = now + 1
    /\ tempFiles' = Aged(tempFiles, audio_path, now + 1)
    /\ cap' = [cap EXCEPT !.live = Aged(@, audio_path, now + 1)]
    /\ UNCHANGED <<pc, phase, exit, site, attempt, audio_path, command,
                   task_name, date_str, task, dirExists, csv, jobs, outbox, it>>

-----------------------------------------------------------------------------
(* KeyboardInterrupt.  It is no Exception: lines 183, 202 and 295 let it   *)
(* pass (the finally of a running attempt runs); line 290 catches it        *)
(* inside the interactive loop, line 306 inside the polling loop; anywhere  *)
(* else it leaves main through the finally of line 309.                     *)

TryPcs ==
    { "prompt", "record", "save", "stt", "apology", "dispatch", "parse",
      "ct_err", "save_task", "schedule_reminder", "send_confirmation",
      "tts_success", "bye", "huh" }

KeyboardInterrupt ==
    /\ \/ /\ pc \in TryPcs
          /\ \E rmOk \in RmChoices(tempFiles, audio_path) :
                /\ tempFiles' = Finally(tempFiles, audio_path, rmOk)
                /\ cap' = NoCap
          /\ pc' = "kbd"
          /\ it' = Caught(NoIt, "KeyboardInterrupt")
          /\ exit' = exit
       \/ /\ pc \in {"welcome", "kbd", "announce"}
          /\ pc' = "cleanup"
          /\ exit' = "KeyboardInterrupt"
          /\ UNCHANGED <<tempFiles, it>>
          /\ cap' = NoCap
       \/ /\ pc \in {"poll", "sleep"}
          /\ pc' = "cleanup"
          /\ exit' = "returned"
          /\ UNCHANGED <<tempFiles, it>>
          /\ cap' = NoCap
    /\ site' = "command"
    /\ attempt' = 0
    /\ audio_path' = NoPath
    /\ command' = <<>>
    /\ task_name' = <<>>
    /\ date_str' = <<>>
    /\ UNCHANGED <<phase, task, now, dirExists, csv, jobs, outbox>>

-----------------------------------------------------------------------------
(* main, the finally, lines 309-320.  keep: the files whose os.remove      *)
(* failed (lines 316-317); rmdirOk: os.rmdir of the emptied directory       *)
(* succeeded (it fails on a directory that is not empty; lines 319-320).    *)

\* a finally without the handlers of lines 316 and 319: a removal that fails
\* raises out of main
Cleanup_raising ==
    /\ pc = "cleanup"
    /\ \E keep \in SUBSET tempFiles, rmdirOk \in BOOLEAN :
          /\ keep # {} => rmdirOk
          /\ tempFiles' = keep
          /\ dirExists' = ~(keep = {} /\ rmdirOk)
          /\ exit' = IF keep # {} \/ ~rmdirOk THEN "Exception" ELSE exit
    /\ pc' = "exited"
    /\ cap' = NoCap
    /\ it' = NoIt
    /\ UNCHANGED <<phase, site, attempt, audio_path, command, task_name,
                   date_str, task, now, csv, jobs, outbox>>

Cleanup ==
    /\ pc = "cleanup"
    /\ IF dirExists
       THEN \E keep \in SUBSET tempFiles, rmdirOk \in BOOLEAN :
              /\ keep # {} => rmdirOk
              /\ tempFiles' = keep
              /\ dirExists' = ~(keep = {} /\ rmdirOk)
       ELSE UNCHANGED <<tempFiles, dirExists>>
    /\ pc' = "exited"
    /\ exit' = IF exit = "none" THEN "returned" ELSE exit
    /\ cap' = NoCap
    /\ it' = NoIt
    /\ UNCHANGED <<phase, site, attempt, audio_path, command, task_name,
                   date_str, task, now, csv, jobs, outbox>>

-----------------------------------------------------------------------------

Next ==
    \/ Welcome
    \/ Prompt
    \/ Record
    \/ Save
    \/ Transcribe
    \/ Apology
    \/ Dispatch
    \/ Parse
    \/ CreateTaskError
    \/ SaveTask
    \/ ScheduleReminder
    \/ SendConfirmation
    \/ Success
    \/ Unknown
    \/ Bye
    \/ Interrupted
    \/ Announce
    \/ RunPending
    \/ Sleep
    \/ Tick
    \/ KeyboardInterrupt
    \/ Cleanup

Spec == Init /\ [][Next]_vars

TypeOK ==
    /\ now \in 0..MaxClock
    /\ attempt \in 0..(max_retries - 1)
    /\ Len(jobs) <= MaxTasks

-----------------------------------------------------------------------------
(* The task log on its own: a log file that may exist before the run, any   *)
(* number of constructions of a TaskManager over it (line 133) and          *)
(* save_task calls (lines 219-227).  pc names the last operation.           *)

\* log files found at the configured path before a run
PriorLogs ==
    { [exists |-> TRUE, rows |-> <<>>],
      [exists |-> TRUE, rows |-> <<Header>>],
      [exists |-> TRUE,
       rows |-> <<Header, <<<<"old">>, 0, <<"0", "9", ":", "3", "0">>>>>>] }

\* the tasks handed to save_task
StoreTasks ==
    { Task(<<"pay rent">>, 1, <<"1", "2", ":", "0", "0">>),
      Task(<<"pay rent">>, 1, <<"1", "5", ":", "0", "0">>),
      Task(<<"call">>, 2, <<"1", "2", ":", "0", "0">>) }

InitStore ==
    /\ pc = "store"
    /\ phase = "startup"
    /\ exit = "none"
    /\ site = "command"
    /\ attempt = 0
    /\ audio_path = NoPath
    /\ command = <<>>
    /\ task_name = <<>>
    /\ date_str = <<>>
    /\ task = NoTask
    /\ now = 0
    /\ tempFiles = {}
    /\ dirExists = TRUE
    /\ csv \in PriorLogs \cup {NoFile}
    /\ jobs = <<>>
    /\ outbox = <<>>
    /\ cap = NoCap
    /\ it = NoIt

\* TaskManager.__init__, line 133
StoreInitialize ==
    /\ pc \in {"store", "store_initialized", "store_saved"}
    /\ csv' = _initialize_csv(csv)
    /\ pc' = "store_initialized"
    /\ UNCHANGED <<phase, exit, site, attempt, audio_path, command, task_name,
                   date_str, task, now, tempFiles, dirExists, jobs, outbox,
                   cap, it>>

\* save_task(task), lines 219-224
StoreSave ==
    /\ pc \in {"store_initialized", "store_saved"}
    /\ Len(csv.rows) < StoreMaxRows + 2
    /\ \E t \in StoreTasks :
        /\ task' = t
        /\ csv' = save_task(csv, t)
    /\ pc' = "store_saved"
    /\ UNCHANGED <<phase, exit, site, attempt, audio_path, command, task_name,
                   date_str, now, tempFiles, dirExists, jobs, outbox, cap, it>>

NextStore == StoreInitialize \/ StoreSave

SpecStore == InitStore /\ [][NextStore]_vars

-----------------------------------------------------------------------------
(* Properties of get_voice_input *)

\* C1: when get_voice_input gives up (line 193) it has made exactly
\* max_retries calls of record_audio and every audio file made by its
\* attempts has been removed.
C1_ExhaustedAndReleased ==
    cap.result = "exhausted" => cap.recs = max_retries /\ cap.live = {}

\* C2: every text get_voice_input returns, and so every command, task name
\* and date text the flows use, is non-empty after strip.
C2_ReturnedTextNonEmpty ==
    /\ cap.result = "text" => Strip(cap.text) # <<>>
    /\ pc = "dispatch" => Strip(command) # <<>>
    /\ (site = "date" /\ pc \in {"prompt", "record", "save", "stt", "apology"})
          => Strip(task_name) # <<>>
    /\ pc = "parse" => Strip(task_name) # <<>> /\ Strip(date_str) # <<>>

\* a date text is returned by a call that needed more than one attempt
C2_Witness ==
    /\ cap.result = "text"
    /\ cap.site = "date"
    /\ cap.recs > 1
    /\ pc = "parse"
    /\ date_str = cap.text

-----------------------------------------------------------------------------
(* Properties of the reminders *)

\* the entries of the outbox ob made by send_reminder of job j in the minute
\* of second t
RemindersIn(ob, j, t) ==
    { i \in 1..Len(ob) :
        /\ ob[i].msg.kind = "Reminder"
        /\ ob[i].job = j
        /\ Day(ob[i].at) = Day(t)
        /\ ClockTime(ob[i].at) = ClockTime(t) }

C4_PollingSurvivesDeliveryError ==
    \A i \in 1..Len(outbox) :
        (outbox[i].msg.kind = "Reminder" /\ ~outbox[i].ok) => exit # "Exception"

-----------------------------------------------------------------------------
(* Properties of an iteration of the interactive loop *)

\* an iteration has started: `it` holds the sizes at its start (the log has
\* its header from the constructor on)
IterationRunning == it.rows0 > 0

\* what the iteration has added so far
RowsAdded == Len(csv.rows) - it.rows0
JobsAdded == Len(jobs) - it.jobs0
SentInIt == Len(outbox) - it.out0

\* C5: in an iteration that got a Task, the row is appended first, then the
\* daily job at the task's deadline_time is registered, then the confirmation
\* is sent, all before the iteration ends.
C5_AppendRegisterConfirm ==
    IterationRunning =>
        /\ SentInIt <= JobsAdded /\ JobsAdded <= RowsAdded /\ RowsAdded <= 1
        /\ pc = "save_task" => RowsAdded = 0
        /\ pc = "schedule_reminder" =>
              /\ RowsAdded = 1 /\ JobsAdded = 0
              /\ csv.rows[Len(csv.rows)] = <<task.name, task.due_date, task.deadline_time>>
        /\ pc = "send_confirmation" =>
              /\ RowsAdded = 1 /\ JobsAdded = 1 /\ SentInIt = 0
              /\ jobs[Len(jobs)].task = task
              /\ FormatTime(jobs[Len(jobs)].at_time) = task.deadline_time
        /\ pc = "tts_success" =>
              /\ RowsAdded = 1 /\ JobsAdded = 1 /\ SentInIt = 1
              /\ outbox[Len(outbox)].ok
              /\ outbox[Len(outbox)].msg.kind = "Task Created"
              /\ outbox[Len(outbox)].msg.name = task.name
              /\ outbox[Len(outbox)].msg.due_date = task.due_date
              /\ outbox[Len(outbox)].msg.deadline_time = task.deadline_time

\* the confirmation of the task of this iteration has been sent
C5_Witness ==
    /\ IterationRunning
    /\ pc = "tts_success"
    /\ task # NoTask
    /\ RowsAdded = 1 /\ JobsAdded = 1 /\ SentInIt = 1

\* C6: when a step of create_task fails, text_to_speech is called with the
\* error, there is no Task, create_task is not called again in the iteration,
\* and the iteration adds no row, no job and no message; no Task is built
\* from a date text that does not resolve.
C6_FailedCreateTask ==
    /\ [](IterationRunning /\ it.ctFail # "none" =>
            /\ task = NoTask
            /\ it.ct = 1
            /\ RowsAdded = 0 /\ JobsAdded = 0 /\ SentInIt = 0
            /\ (pc # "ct_err" /\ it.exc # "KeyboardInterrupt") => "ct_err" \in it.said)
    /\ [](task # NoTask => task.due_date >= 0)
    /\ [][pc = "ct_err" /\ pc' # pc =>
            \/ pc' = "prompt" /\ site' = "command"
            \/ pc' \in {"announce", "kbd"}]_vars
    /\ [][pc = "parse" /\ Resolve(date_str, now) = {NoDate} /\ pc' # pc =>
            /\ task' = NoTask
            /\ pc' \in {"ct_err", "kbd"}]_vars

\* the date text did not resolve, the error has been spoken and the next
\* command is asked for
C6_Witness ==
    /\ IterationRunning
    /\ it.ctFail = "parse"
    /\ "ct_err" \in it.said
    /\ pc = "prompt" /\ site = "command"
    /\ it.exc = "none"

\* C7: when save_task raises, the exception reaches main, and the iteration
\* registers no job and sends no confirmation for the Task.
C7_FailedSaveTask ==
    /\ [](IterationRunning /\ task # NoTask /\ RowsAdded = 0 /\ pc # "save_task" =>
            /\ it.exc \in {"Exception", "KeyboardInterrupt"}
            /\ JobsAdded = 0 /\ SentInIt = 0)
    /\ [][pc = "save_task" /\ pc' \notin {"save_task", "kbd"} /\ csv' = csv =>
            /\ pc' = "announce"
            /\ it'.exc = "Exception"
            /\ jobs' = jobs /\ outbox' = outbox]_vars

\* save_task raised and main has announced the error
C7_Witness ==
    /\ IterationRunning
    /\ task # NoTask
    /\ RowsAdded = 0
    /\ it.exc = "Exception"
    /\ "announce" \in it.said
    /\ pc = "prompt"

\* C8: an Exception caught by the interactive loop (line 295) does not end
\* the process.
C8_LoopSurvivesFailures ==
    (phase = "interactive" /\ it.exc = "Exception") => exit # "Exception"

-----------------------------------------------------------------------------
(* Properties of the task log, under SpecStore *)

\* C9: every operation on the log keeps the rows it finds, in their order,
\* and save_task adds exactly one row after them, the fields of its Task.
C9_AppendOnly ==
    [][/\ Len(csv'.rows) >= Len(csv.rows)
       /\ SubSeq(csv'.rows, 1, Len(csv.rows)) = csv.rows
       /\ pc' = "store_saved" =>
            /\ Len(csv'.rows) = Len(csv.rows) + 1
            /\ csv'.rows[Len(csv'.rows)] =
                  <<task'.name, task'.due_date, task'.deadline_time>>
      ]_vars

\* two different tasks were saved after the header, and the log holds their
\* rows in that order
C9_Witness ==
    /\ pc = "store_saved"
    /\ Len(csv.rows) = 3
    /\ csv.rows[1] = Header
    /\ csv.rows[2] # csv.rows[3]
    /\ csv.rows[3] = <<task.name, task.due_date, task.deadline_time>>

\* C10: _initialize_csv writes the header exactly when there is no log; run
\* on an existing log, also a second time or after rows were saved, it
\* leaves the log as it is.
C10_InitializeIdempotent ==
    /\ [](pc = "store_initialized" => csv.exists)
    /\ [][pc' = "store_initialized" =>
            IF csv.exists
            THEN csv' = csv
            ELSE csv'.rows = <<Header>>]_vars

\* the log was made by _initialize_csv, a task was saved, and
\* _initialize_csv has run again: one header, and the row after it
C10_Witness ==
    /\ pc = "store_initialized"
    /\ Len(csv.rows) = 2
    /\ csv.rows[1] = Header
    /\ csv.rows[2] = <<task.name, task.due_date, task.deadline_time>>
    /\ task \in StoreTasks

-----------------------------------------------------------------------------
(* Properties of parse_datetime *)

\* the time of day a date text names, <<>> when it names none
SpokenTime(text) ==
    CASE Contains(text, "3pm") -> <<"1", "5", ":", "0", "0">>
      [] Contains(text, "12am") -> <<"0", "0", ":", "0", "0">>
      [] OTHER -> <<>>

\* C11: the Task built from a date text has deadline_time 12:00 when the
\* text names no time of day, and the named time unchanged when it names
\* one; a text that does not resolve gives no Task.
C11_DefaultTimePolicy ==
    [][pc = "parse" /\ pc' # pc =>
         IF pc' = "save_task"
         THEN /\ Resolve(date_str, now) # {NoDate}
              /\ task'.deadline_time =
                    IF SpokenTime(date_str) = <<>>
                    THEN <<"1", "2", ":", "0", "0">>
                    ELSE SpokenTime(date_str)
         ELSE task' = NoTask]_vars

-----------------------------------------------------------------------------
(* Properties of the registry and of the two loops *)

\* the occurrence of the minute hm on the day after second t
Tomorrow(hm, t) == (Day(t) + 1) * TicksPerDay + TodOf(hm)

\* C12: a registered job stays in the registry with its task and its time;
\* whatever the task's due_date, its next run is an occurrence of its
\* deadline_time no later than tomorrow's, and a run_pending that finds it
\* due sends its reminder and arms it for the next day's occurrence.
C12_TriggerStaysDaily ==
    /\ [][/\ Len(jobs') >= Len(jobs)
          /\ \A j \in 1..Len(jobs) :
                /\ jobs'[j].task = jobs[j].task
                /\ jobs'[j].at_time = jobs[j].at_time]_vars
    /\ [](\A j \in 1..Len(jobs) :
            /\ Tod(jobs[j].next_run) = TodOf(jobs[j].at_time)
            /\ jobs[j].next_run <= Tomorrow(jobs[j].at_time, now))
    /\ [][(pc = "poll" /\ pc' = "sleep") =>
            \A j \in 1..Len(jobs) :
                IF now >= jobs[j].next_run
                THEN /\ \E i \in (Len(outbox) + 1)..Len(outbox') :
                            /\ outbox'[i].job = j
                            /\ outbox'[i].at = now
                     /\ jobs'[j].next_run > now
                     /\ jobs'[j].next_run <= Tomorrow(jobs[j].at_time, now)
                ELSE jobs'[j] = jobs[j]]_vars

\* the reminder of one job was sent on a day before the task's due_date and
\* again on a later day
C12_Witness ==
    \E i, k \in 1..Len(outbox) :
        /\ i < k
        /\ outbox[i].msg.kind = "Reminder" /\ outbox[k].msg.kind = "Reminder"
        /\ outbox[i].job = outbox[k].job
        /\ Day(outbox[i].at) < Day(outbox[k].at)
        /\ Day(outbox[i].at) < jobs[outbox[i].job].task.due_date

\* C13: the interactive loop is left for the polling loop only by the exit
\* utterance or an interrupt; run_pending runs only in the polling loop; the
\* polling loop is never left for the interactive loop, and it ends only by
\* an interrupt.
C13_TwoPhases ==
    /\ [](pc \in {"poll", "sleep"} <=> (phase = "polling" /\ exit = "none"))
    /\ [][phase' # phase =>
            \/ phase = "startup" /\ phase' = "interactive" /\ pc = "welcome"
            \/ phase = "interactive" /\ phase' = "polling" /\ pc \in {"bye", "kbd"}]_vars
    /\ [][\A i \in (Len(outbox) + 1)..Len(outbox') :
            outbox'[i].msg.kind = "Reminder" => pc = "poll"]_vars
    /\ [](phase = "polling" /\ exit # "none" => exit = "returned")

\* C14: a reminder is sent only at a moment whose time of day is the
\* deadline_time of its job.
C14_NoCatchUp ==
    \A i \in 1..Len(outbox) :
        outbox[i].msg.kind = "Reminder" =>
            ClockTime(outbox[i].at) = jobs[outbox[i].job].at_time

-----------------------------------------------------------------------------
(* Properties of the attempts of get_voice_input *)

CapturePcs == {"record", "save", "stt", "apology"}

\* C15: get_voice_input returns in the attempt that transcribed a non-empty
\* text, and nothing of the call runs after that; the attempts come one after
\* the other, each with one recording, at most max_retries of them.
C15_FirstTextEndsCall ==
    /\ [](/\ cap.recs <= max_retries
          /\ pc = "record" => cap.recs = attempt
          /\ pc \in {"save", "stt", "apology"} => cap.recs = attempt + 1
          /\ pc = "apology" => cap.result = "running" /\ cap.text = <<>>
          /\ cap.result = "text" => pc \notin CapturePcs /\ cap.text # <<>>)
    /\ [][/\ cap'.recs # cap.recs =>
                \/ cap'.recs = cap.recs + 1 /\ pc = "record"
                \/ cap'.recs = 0
          /\ (cap'.result = "text" /\ cap.result # "text") =>
                pc = "stt" /\ cap'.recs = cap.recs
          /\ (pc \in CapturePcs /\ pc' \in CapturePcs /\ pc' # pc) =>
                \/ pc = "record" /\ pc' = "save"
                \/ pc = "save" /\ pc' \in {"stt", "record"}
                \/ pc = "stt" /\ pc' \in {"apology", "record"}
                \/ pc = "apology" /\ pc' = "record"]_vars

\* the second attempt of a call transcribed a text, and the call is over
\* with two recordings
C15_Witness ==
    /\ cap.result = "text"
    /\ cap.recs = 2
    /\ cap.recs < max_retries
    /\ pc = "dispatch"
    /\ command = cap.text

\* C16: outside the transcription and the apology of an attempt, where the
\* recording is in use, no audio file made by an attempt of the call exists.
C16_AttemptReleasesAudio ==
    pc \notin {"stt", "apology"} => cap.live = {}

-----------------------------------------------------------------------------
(* Properties of the temporary directory *)

\* the positions of main whose step is a call of text_to_speech
SpeakingPcs ==
    {"welcome", "prompt", "apology", "ct_err", "tts_success", "bye", "huh",
     "kbd", "announce"}

\* C17: the paths a text_to_speech call takes are not the path of the
\* recording of the attempt that is running.
C17_NoSharedTempFile ==
    (pc \in SpeakingPcs /\ audio_path # NoPath) => audio_path \notin TtsPaths

\* C18: main is left only through its finally; the finally removes files
\* and then the directory, which goes only when no file is left, and a
\* removal that fails changes nothing in the way main is left.
C18_CleanupOnExit ==
    /\ [](exit # "none" => pc \in {"cleanup", "exited"})
    /\ [](pc = "exited" => exit # "none" /\ (~dirExists => tempFiles = {}))
    /\ [][pc' = "exited" =>
            /\ pc = "cleanup"
            /\ exit' = exit
            /\ tempFiles' \subseteq tempFiles
            /\ dirExists' => (tempFiles' # {} \/ dirExists)]_vars
    /\ [][pc' = "cleanup" =>
            exit' \in {"returned", "KeyboardInterrupt", "Exception"}]_vars

\* the polling loop was interrupted, a file could not be removed, and main
\* has returned with the file and the directory left
C18_Witness ==
    /\ pc = "exited"
    /\ phase = "polling"
    /\ exit = "returned"
    /\ tempFiles # {}
    /\ dirExists

\* the words of a command, lower-cased, hold 'schedule' or 'task'
SaysSchedule(cmd) ==
    \E i \in 1..Len(cmd) : LowerTok(cmd[i]) \in {"schedule", "task"}

\* the words of a command, lower-cased, hold 'exit'
SaysExit(cmd) == \E i \in 1..Len(cmd) : LowerTok(cmd[i]) = "exit"

\* C19: a command with 'schedule' or 'task' starts create_task, with 'exit'
\* or without; the exit utterance is reached only from a command with 'exit'
\* and neither of the two; every other command goes to the did-not-understand
\* prompt; the dispatch and the two prompts create no row, trigger or message.
C19_DispatchPrecedence ==
    /\ [][pc = "dispatch" /\ pc' \notin {"dispatch", "kbd"} =>
            /\ SaysSchedule(command) =>
                  pc' = "prompt" /\ site' = "name" /\ it'.ct = it.ct + 1
            /\ ~SaysSchedule(command) /\ SaysExit(command) => pc' = "bye"
            /\ ~SaysSchedule(command) /\ ~SaysExit(command) => pc' = "huh"
            /\ pc' \in {"bye", "huh"} => it'.ct = it.ct]_vars
    /\ [][pc' = "bye" =>
            /\ pc \in {"dispatch", "bye"}
            /\ SaysExit(command') /\ ~SaysSchedule(command')]_vars
    /\ [][pc' = "huh" =>
            /\ pc \in {"dispatch", "huh"}
            /\ ~SaysExit(command') /\ ~SaysSchedule(command')]_vars
    /\ [][(pc \in {"dispatch", "bye", "huh"}) =>
            (csv' = csv /\ jobs' = jobs /\ outbox' = outbox /\ task' = task)]_vars
    /\ [][(phase = "interactive" /\ phase' = "polling" /\ pc # "kbd") =>
            pc = "bye"]_vars

\* a command with both 'exit' and 'Task' has started create_task
C19_Witness ==
    /\ pc = "prompt"
    /\ site = "name"
    /\ SaysExit(command)
    /\ SaysSchedule(command)
    /\ it.ct = 1

\* the rows appended since the log was initialized at line 133
RowsThisRun == Len(csv.rows) - 1

\* the task of message m has a row in the log and a trigger in the registry
RowAndTrigger(m, file, js) ==
    \E i \in 1..Len(js) :
        /\ send_confirmation(js[i].task) = m
        /\ \E r \in 2..Len(file.rows) : file.rows[r] = Row(js[i].task)

\* C20: the i-th trigger of the registry is for the task of the i-th row
\* appended in this run, and that row was in the log before the step that
\* registered the trigger; a confirmation is for a task that had its row and
\* its trigger before the step that sent it; there are no more triggers
\* than rows appended in this run.
C20_RowBeforeTriggerBeforeConfirmation ==
    /\ [](Len(jobs) <= RowsThisRun)
    /\ [](\A i \in 1..Len(jobs) : csv.rows[i + 1] = Row(jobs[i].task))
    /\ [](\A k \in 1..Len(outbox) :
            outbox[k].msg.kind = "Task Created" =>
                RowAndTrigger(outbox[k].msg, csv, jobs))
    /\ [][Len(jobs') > Len(jobs) =>
            /\ csv' = csv
            /\ Len(jobs') = Len(jobs) + 1
            /\ Len(jobs') <= RowsThisRun
            /\ csv.rows[Len(jobs') + 1] = Row(jobs'[Len(jobs')].task)]_vars
    /\ [][(Len(outbox') > Len(outbox)
            /\ outbox'[Len(outbox')].msg.kind = "Task Created") =>
            /\ csv' = csv
            /\ jobs' = jobs
            /\ RowAndTrigger(outbox'[Len(outbox')].msg, csv, jobs)]_vars

\* a task with its row, its trigger and its confirmation, whose trigger has
\* fired since
C20_Witness ==
    /\ RowsThisRun = 1
    /\ Len(jobs) = 1
    /\ \E k \in 1..Len(outbox) : outbox[k].msg.kind = "Task Created"
    /\ \E k \in 1..Len(outbox) :
          outbox[k].msg.kind = "Reminder" /\ outbox[k].job = 1

====
